---- MODULE Spec2Model ----
(***************************************************************************)
(* A model of the cryptocurrencies command line tool: the analytics of     *)
(* HistoricalFunctions (functions.py), the page splitting and the gap fill  *)
(* of HistoricalCollector, the paged download of ApiDataDownloader and the *)
(* consecutive-increase command (historical.py).                           *)
(*                                                                         *)
(* Dates are day ordinals counted from 2020-01-01 (ordinal 0); a date      *)
(* string 'YYYY-MM-DD' is the triple <<year, month, day>>.  Prices are     *)
(* integers in units of 0.005 (half a cent).                               *)
(***************************************************************************)
EXTENDS Integers, Sequences, FiniteSets, Bags, TLC

VARIABLES
    historical_data,  \* HistoricalFunctions.__historical_data
    growth,           \* outcome of HistoricalFunctions.longest_growth_period
    echo,             \* what the consecutive-increase command printed
    collector,        \* HistoricalCollector.__start_date, __end_date
    limit,            \* the limit given to requests_parameters
    pages,            \* what requests_parameters returned
    parameters,       \* ApiDataDownloader.__parameters
    responses,        \* the remote API's response to each parameter set
    downloader,       \* ApiDataDownloader._data, __error and the requests sent
    db,               \* the tables Cryptocurrency and HistoricalValue
    launch,           \* the first day the remote API has rows for
    ROWS_LIMIT,       \* settings.ROWS_LIMIT
    call,             \* the last HistoricalCollector.get_data call and its outcome
    modifier_data,    \* ApiDataModifier._data as given to the modifier
    modifier_rules,   \* ApiDataModifier.__modifications
    modifier,         \* outcome of ApiDataModifier.make_modifications
    average,          \* what HistoricalFunctions.average_price returned
    args,             \* the --start-date and --end-date values and which is validated first
    ctx_obj,          \* click's ctx.obj during the validation
    parsing           \* the callbacks that ran, what they returned, and how parsing stands

streak_vars == <<historical_data, growth, echo>>
pages_vars == <<collector, limit, pages>>
download_vars == <<parameters, responses, downloader>>
collect_vars == <<db, launch, ROWS_LIMIT, call>>
modify_vars == <<modifier_data, modifier_rules, modifier>>
average_vars == <<average>>
validate_vars == <<args, ctx_obj, parsing>>
vars == <<streak_vars, pages_vars, download_vars, collect_vars, modify_vars, average_vars, validate_vars>>

\* ------------------------------------------------------------------ bounds
MaxLen == 5       \* longest price series
MaxPrice == 3     \* prices are 0..MaxPrice half-cents
MaxShift == 2     \* start dates of the page splitting: 2020-02-28 + 0..MaxShift
MaxDays == 6      \* longest range of the page splitting, in days
MaxLimit == 4     \* largest page limit of the page splitting
MaxPages == 3     \* most parameter sets given to a downloader
MaxRows == 2      \* most rows in one page's payload
MaxOffset == 1    \* start dates of get_data: 2020-02-28 + 0..MaxOffset
MaxSpan == 2      \* longest range of get_data, in days
MaxRowsLimit == 2 \* settings.ROWS_LIMIT is drawn from 1..MaxRowsLimit: the
                  \* setting's value, 360, puts a second page 361 days away
MaxLaunch == 1    \* the remote API has rows from 2020-02-28 + 0..MaxLaunch on
MaxRecords == 2   \* most records given to a modifier
MaxMonthDays == 32 \* longest series of the monthly averages, in days
MaxMonthShift == 1 \* these series start on 2020-01-30 + 0..MaxMonthShift
MaxStep == 2      \* their prices change by 0..MaxStep half-cents a day

\* ---------------------------------------------------------------- calendar
IsLeap(y) == (y % 4 = 0 /\ y % 100 # 0) \/ y % 400 = 0

\* calendar.monthrange(y, m)[1]
monthrange(y, m) ==
    IF m = 2 THEN (IF IsLeap(y) THEN 29 ELSE 28)
    ELSE IF m \in {4, 6, 9, 11} THEN 30 ELSE 31

YearLength(y) == IF IsLeap(y) THEN 366 ELSE 365

RECURSIVE DaysBeforeMonth(_, _)
DaysBeforeMonth(y, m) ==
    IF m = 1 THEN 0 ELSE DaysBeforeMonth(y, m - 1) + monthrange(y, m - 1)

RECURSIVE DaysBeforeYear(_)
DaysBeforeYear(y) ==
    IF y = 2020 THEN 0 ELSE DaysBeforeYear(y - 1) + YearLength(y - 1)

RECURSIVE YearOf(_, _)
YearOf(n, y) == IF n < YearLength(y) THEN y ELSE YearOf(n - YearLength(y), y + 1)

RECURSIVE MonthOf(_, _, _)
MonthOf(doy, y, m) ==
    IF doy < monthrange(y, m) THEN m ELSE MonthOf(doy - monthrange(y, m), y, m + 1)

\* datetime.strftime(value, '%Y-%m-%d'): the date string of a day ordinal
to_string(value) ==
    LET y == YearOf(value, 2020)
        doy == value - DaysBeforeYear(y)
        m == MonthOf(doy, y, 1)
    IN <<y, m, doy - DaysBeforeMonth(y, m) + 1>>

\* datetime.strptime(value, '%Y-%m-%d'): the day ordinal of a date string
to_datetime(value) ==
    DaysBeforeYear(value[1]) + DaysBeforeMonth(value[1], value[2]) + value[3] - 1

\* ------------------------------------------------------- HistoricalFunctions
list_values(container, attribute) ==
    [i \in 1..Len(container) |-> container[i][attribute]]

Abs(x) == IF x < 0 THEN -x ELSE x

\* HistoricalFunctions.difference
difference(pair) == Abs(pair[1] - pair[2])

\* Indices are Python's (from 0); data[i] of the source is data[i + 1] here.
find_local_max_min(data) ==
    LET n == Len(data)
        at(i) == data[i + 1]
        first_max == IF at(0) > at(1) THEN <<0>> ELSE <<>>
        first_min == IF at(0) > at(1) THEN <<>>
                     ELSE IF at(0) < at(1) THEN <<0>> ELSE <<>>
        is_min(i) == at(i - 1) > at(i) /\ at(i) < at(i + 1)
        is_max(i) == ~is_min(i) /\ at(i - 1) < at(i) /\ at(i) > at(i + 1)
        middle == [k \in 1..(n - 2) |-> k]
        last_max == IF at(n - 1) > at(n - 2) THEN <<n - 1>> ELSE <<>>
        last_min == IF at(n - 1) > at(n - 2) THEN <<>>
                    ELSE IF at(n - 1) < at(n - 2) THEN <<n - 1>> ELSE <<>>
    IN [local_max |-> first_max \o SelectSeq(middle, is_max) \o last_max,
        local_min |-> first_min \o SelectSeq(middle, is_min) \o last_min]

\* list.pop(-1)
PopLast(s) == SubSeq(s, 1, Len(s) - 1)

\* list(zip(a, b))
zip(a, b) ==
    LET n == IF Len(a) < Len(b) THEN Len(a) ELSE Len(b)
    IN [i \in 1..n |-> <<a[i], b[i]>>]

\* max(pairs, key=...): the first element whose key no later element exceeds
RECURSIVE max_by(_, _, _)
max_by(pairs, best, i) ==
    IF i > Len(pairs) THEN best
    ELSE max_by(pairs,
                IF difference(pairs[i]) > difference(best) THEN pairs[i] ELSE best,
                i + 1)

\* paired without the equal-count rule that drops a leading maximum and a
\* trailing minimum
paired_keep_boundary(prices) ==
    LET e == find_local_max_min(prices)
        lmax == e.local_max
        lmin == e.local_min
    IN IF Len(lmax) > Len(lmin)
         THEN [kind |-> "pairs", pairs |-> zip(lmin, Tail(lmax))]
       ELSE IF Len(lmax) < Len(lmin)
         THEN [kind |-> "pairs", pairs |-> zip(PopLast(lmin), lmax)]
       ELSE IF lmax = <<>>
         THEN [kind |-> "IndexError", pairs |-> <<>>]
       ELSE [kind |-> "pairs", pairs |-> zip(lmin, lmax)]

\* The min/max pairs left after the pairing rule; "IndexError" when
\* local_max[0] is read from an empty list.
paired(prices) ==
    LET e == find_local_max_min(prices)
        lmax == e.local_max
        lmin == e.local_min
    IN IF Len(lmax) > Len(lmin)
         THEN [kind |-> "pairs", pairs |-> zip(lmin, Tail(lmax))]
       ELSE IF Len(lmax) < Len(lmin)
         THEN [kind |-> "pairs", pairs |-> zip(PopLast(lmin), lmax)]
       ELSE IF lmax = <<>>
         THEN [kind |-> "IndexError", pairs |-> <<>>]
       ELSE IF lmax[1] = 0
         THEN [kind |-> "pairs", pairs |-> zip(PopLast(lmin), Tail(lmax))]
       ELSE [kind |-> "pairs", pairs |-> zip(lmin, lmax)]

\* select_longest returning the pair max() selects alone
select_first_longest(pairs) == <<max_by(pairs, pairs[1], 2)>>

\* The pairs as far from each other as the pair max() selects
select_longest(pairs) ==
    LET m == max_by(pairs, pairs[1], 2)
        same(p) == difference(p) = difference(m)
    IN SelectSeq(pairs, same)

\* HistoricalFunctions.longest_growth_period: kind is "None" (return None),
\* "pairs" (the generator's elements) or "IndexError" (the exception raised).
longest_growth_period(data, price_column) ==
    IF Len(data) < 2 THEN [kind |-> "None", pairs |-> <<>>]
    ELSE LET p == paired(list_values(data, price_column))
         IN IF p.kind = "IndexError" THEN p
            ELSE IF p.pairs = <<>> THEN [kind |-> "None", pairs |-> <<>>]
            ELSE [kind |-> "pairs", pairs |-> select_longest(p.pairs)]

\* Decimal.quantize(Decimal('0.01')) of d half-cents, ROUND_HALF_EVEN
quantize(d) ==
    IF d % 2 = 0 THEN d
    ELSE IF ((d - 1) \div 2) % 2 = 0 THEN d - 1 ELSE d + 1

\* HistoricalFunctions.period_details; 0.01 is 2 half-cents
period_details(period, price_column) ==
    LET d == difference(<<period[1][price_column], period[2][price_column]>>)
    IN [first_day |-> to_string(period[1].date),
        last_day |-> to_string(period[2].date),
        amount |-> IF d >= 2 THEN quantize(d) ELSE d]

\* consecutive_increase reporting the first of the longest periods only
consecutive_increase_first_only(data, price_column) ==
    LET result == longest_growth_period(data, price_column)
        periods == [i \in 1..(IF Len(result.pairs) > 0 THEN 1 ELSE 0) |->
                       <<data[result.pairs[i][1] + 1], data[result.pairs[i][2] + 1]>>]
        details == [i \in 1..Len(periods) |-> period_details(periods[i], price_column)]
    IN IF result.kind = "IndexError" THEN [kind |-> "IndexError", lines |-> <<>>]
       ELSE IF result.kind = "None" THEN [kind |-> "No consecutive period", lines |-> <<>>]
       ELSE [kind |-> "Longest consecutive period", lines |-> details]

\* The body of the consecutive-increase command
consecutive_increase(data, price_column) ==
    LET result == longest_growth_period(data, price_column)
        periods == [i \in 1..Len(result.pairs) |->
                       <<data[result.pairs[i][1] + 1], data[result.pairs[i][2] + 1]>>]
        details == [i \in 1..Len(periods) |-> period_details(periods[i], price_column)]
    IN IF result.kind = "IndexError" THEN [kind |-> "IndexError", lines |-> <<>>]
       ELSE IF result.kind = "None" THEN [kind |-> "No consecutive period", lines |-> <<>>]
       ELSE IF Len(periods) = 1
         THEN [kind |-> "Longest consecutive period", lines |-> details]
       ELSE [kind |-> "More than one consecutive period", lines |-> details]

\* date.month of a day ordinal
month(value) == to_string(value)[2]

\* datetime.strftime(value, '%Y-%m'): <<year, month>>
to_string_month(value) == SubSeq(to_string(value), 1, 2)

\* The loop of group_by_months at record index (from 0), the group in hand
\* starting at start_index in month month_; the else clause of the loop
\* appends the last group
RECURSIVE group_from(_, _, _, _, _)
group_from(data, index, start_index, month_, result) ==
    IF index = Len(data)
      THEN Append(result, SubSeq(data, start_index + 1, Len(data)))
    ELSE IF month(data[index + 1].date) = month_
      THEN group_from(data, index + 1, start_index, month_, result)
    ELSE group_from(data, index + 1, index, month(data[index + 1].date),
                    Append(result, SubSeq(data, start_index + 1, index)))

\* group_by_months without the else clause of its loop
group_by_months_no_last(data) ==
    PopLast(group_from(data, 0, 0, month(data[1].date), <<>>))

\* HistoricalFunctions.group_by_months, for a series that is not empty
group_by_months(data) == group_from(data, 0, 0, month(data[1].date), <<>>)

RECURSIVE sum(_, _)
sum(values, i) == IF i > Len(values) THEN 0 ELSE values[i] + sum(values, i + 1)

\* statistics.mean of Decimals: the fraction num / den of half-cents
mean(values) == [num |-> sum(values, 1), den |-> Len(values)]

\* average.quantize(Decimal('0.01')), ROUND_HALF_EVEN: the whole cents
\* nearest to num / den half-cents, as a fraction of half-cents
quantize_fraction(a) ==
    LET cents == a.num \div (2 * a.den)
        rest == a.num % (2 * a.den)
        up == rest > a.den \/ (rest = a.den /\ cents % 2 = 1)
    IN [num |-> 2 * (IF up THEN cents + 1 ELSE cents), den |-> 1]

\* The body of the loop of average_price for one group; 0.01 is 2 half-cents
group_average(data, price_column) ==
    LET a == mean(list_values(data, price_column))
    IN [date |-> to_string_month(data[1].date),
        average |-> IF a.num >= 2 * a.den THEN quantize_fraction(a) ELSE a]

\* HistoricalFunctions.average_price
average_price(data, price_column) ==
    LET grouped_by_months == group_by_months(data)
    IN [i \in 1..Len(grouped_by_months) |->
           group_average(grouped_by_months[i], price_column)]

\* -------------------------------------------------------- ApiDataDownloader
\* _send_request leaving __error unset for the exceptions of the last clause
send_request_unset(response) ==
    IF response.kind = "HTTPError"
      THEN [is_none |-> TRUE, error |-> <<"HTTP Error", response.text>>]
    ELSE IF response.kind \in {"Timeout", "ConnectTimeout"}
      THEN [is_none |-> TRUE, error |-> <<"Timeout Error", response.text>>]
    ELSE IF response.kind = "ConnectionError"
      THEN [is_none |-> TRUE, error |-> <<"Connection Error", response.text>>]
    ELSE IF response.kind = "RequestException"
      THEN [is_none |-> TRUE, error |-> <<>>]
    ELSE [is_none |-> FALSE, error |-> <<>>]

\* ApiDataDownloader._send_request: the value returned (is_none: None) and the
\* value left in __error (<<>>: unchanged).  An error message is the pair of its
\* class prefix and the exception's text.
send_request(response) ==
    IF response.kind = "HTTPError"
      THEN [is_none |-> TRUE, error |-> <<"HTTP Error", response.text>>]
    ELSE IF response.kind \in {"Timeout", "ConnectTimeout"}
      THEN [is_none |-> TRUE, error |-> <<"Timeout Error", response.text>>]
    ELSE IF response.kind = "ConnectionError"
      THEN [is_none |-> TRUE, error |-> <<"Connection Error", response.text>>]
    ELSE IF response.kind = "RequestException"
      THEN [is_none |-> TRUE, error |-> <<"Request Error", response.text>>]
    ELSE [is_none |-> FALSE, error |-> <<>>]

\* download_from going on to the next parameter set after a failed request
RECURSIVE download_past_failure(_, _, _, _)
download_past_failure(answers, i, api_data, sent) ==
    IF i > Len(answers)
      THEN [has_data |-> TRUE, data |-> api_data, error |-> <<>>, sent |-> sent]
    ELSE LET r == send_request(answers[i])
         IN IF r.is_none
              THEN [has_data |-> FALSE, data |-> <<>>, error |-> r.error,
                    sent |-> download_past_failure(answers, i + 1, api_data,
                                                   Append(sent, i)).sent]
            ELSE download_past_failure(answers, i + 1,
                                       IF answers[i].kind = "list"
                                         THEN api_data \o answers[i].body
                                         ELSE Append(api_data, answers[i].body),
                                       Append(sent, i))

\* The loop of ApiDataDownloader.get_data from parameter set i on; sent lists
\* the parameter sets requested so far, in the order of the requests.
RECURSIVE download_from(_, _, _, _)
download_from(answers, i, api_data, sent) ==
    IF i > Len(answers)
      THEN [has_data |-> TRUE, data |-> api_data, error |-> <<>>, sent |-> sent]
    ELSE LET r == send_request(answers[i])
         IN IF r.is_none
              THEN [has_data |-> FALSE, data |-> <<>>, error |-> r.error,
                    sent |-> Append(sent, i)]
            ELSE download_from(answers, i + 1,
                               IF answers[i].kind = "list"
                                 THEN api_data \o answers[i].body
                                 ELSE Append(api_data, answers[i].body),
                               Append(sent, i))

\* download_from keeping the pages gathered before a failed request
RECURSIVE download_partial(_, _, _, _)
download_partial(answers, i, api_data, sent) ==
    IF i > Len(answers)
      THEN [has_data |-> TRUE, data |-> api_data, error |-> <<>>, sent |-> sent]
    ELSE LET r == send_request(answers[i])
         IN IF r.is_none
              THEN [has_data |-> TRUE, data |-> api_data, error |-> r.error,
                    sent |-> Append(sent, i)]
            ELSE download_partial(answers, i + 1,
                                  IF answers[i].kind = "list"
                                    THEN api_data \o answers[i].body
                                    ELSE Append(api_data, answers[i].body),
                                  Append(sent, i))

Downloader_keep_partial(answers) == download_partial(answers, 1, <<>>, <<>>)

\* ApiDataDownloader.get_data on a new downloader; answers[i] is the remote
\* API's response to the i-th parameter set.  has_data: data is not None.
Downloader_get_data(answers) == download_from(answers, 1, <<>>, <<>>)

\* ---------------------------------------------------------------- settings
\* settings.HISTORICAL_MODIFICATIONS
HISTORICAL_MODIFICATIONS ==
    << [function |-> "_format_date",
        args |-> <<"time_close", "date", "%Y-%m-%dT%H:%M:%SZ", "%Y-%m-%d">>] >>

\* settings.CRYPTOCURRENCY_MODIFICATIONS
CRYPTOCURRENCY_MODIFICATIONS ==
    << [function |-> "_rename", args |-> <<"id", "currency_name">>] >>

\* ---------------------------------------------------------- ApiDataModifier
\* The transformations ApiDataModifier defines
ModifierMethods == {"_format_date", "_currency_name"}

\* dict_obj[new_key] = value
SetKey(dict_obj, new_key, value) ==
    [k \in (DOMAIN dict_obj) \cup {new_key} |->
        IF k = new_key THEN value ELSE dict_obj[k]]

\* A timestamp 'YYYY-MM-DDTHH:MM:SSZ' is <<year, month, day, hour, minute,
\* second>>.  strptime with '%Y-%m-%dT%H:%M:%SZ' raises ValueError for any
\* other string and for a date the calendar does not have.
parses(date_string) ==
    /\ Len(date_string) = 6
    /\ date_string[2] \in 1..12
    /\ date_string[3] \in 1..monthrange(date_string[1], date_string[2])
    /\ date_string[4] \in 0..23
    /\ date_string[5] \in 0..59
    /\ date_string[6] \in 0..61

\* ApiDataModifier._format_date under its decorator: the record with the
\* date of the timestamp under new_key, or the record as it is when the
\* timestamp is missing (dict.get gives None, strptime raises TypeError) or
\* does not parse (ValueError).
format_date(dict_obj, key, new_key) ==
    IF key \notin DOMAIN dict_obj THEN dict_obj
    ELSE IF ~parses(dict_obj[key]) THEN dict_obj
    ELSE SetKey(dict_obj, new_key, to_string(to_datetime(SubSeq(dict_obj[key], 1, 3))))

\* ApiDataModifier._currency_name under its decorator, for a record that has
\* the key
currency_name(dict_obj, key, new_key) == SetKey(dict_obj, new_key, dict_obj[key])

\* The number of values a rule's args must hold: dict_key and new_key, and
\* the two formats of _format_date
Arity(function) == IF function = "_format_date" THEN 4 ELSE 2

\* The inner loop of make_modifications on one record, from rule i on: the
\* record as the rules left it, and "done" or the exception raised -
\* AttributeError by getattr for a rule the modifier does not define,
\* TypeError for a wrong number of arguments, KeyError by dict_obj[key] of
\* _currency_name.
RECURSIVE modify(_, _, _)
modify(dict_obj, modifications, i) ==
    IF i > Len(modifications) THEN [kind |-> "done", dict |-> dict_obj]
    ELSE LET m == modifications[i]
         IN IF m.function \notin ModifierMethods
              THEN [kind |-> "AttributeError", dict |-> dict_obj]
            ELSE IF Len(m.args) # Arity(m.function)
              THEN [kind |-> "TypeError", dict |-> dict_obj]
            ELSE IF m.function = "_format_date"
              THEN modify(format_date(dict_obj, m.args[1], m.args[2]),
                          modifications, i + 1)
            ELSE IF m.args[1] \notin DOMAIN dict_obj
              THEN [kind |-> "KeyError", dict |-> dict_obj]
            ELSE modify(currency_name(dict_obj, m.args[1], m.args[2]),
                        modifications, i + 1)

\* The outer loop of make_modifications after record i was modified: r
modified(data, modifications, i, r) ==
    [kind |-> r.kind, data |-> [data EXCEPT ![i] = r.dict]]

\* The outer loop of make_modifications from record i on
RECURSIVE modify_from(_, _, _)
modify_from(data, modifications, i) ==
    IF i > Len(data) THEN [kind |-> "done", data |-> data]
    ELSE IF modify(data[i], modifications, 1).kind # "done"
      THEN modified(data, modifications, i, modify(data[i], modifications, 1))
    ELSE modify_from(modified(data, modifications, i,
                              modify(data[i], modifications, 1)).data,
                     modifications, i + 1)

\* ApiDataModifier.make_modifications: the records as the rules left them, in
\* place, and "done" or the exception that ended it
make_modifications(data, modifications) == modify_from(data, modifications, 1)

\* -------------------------------------------------------------- ApiDataSave
\* What a call does to the storage is a sequence of events: "enter" and
\* "exit" of a block `with db:` (the connection is opened if closed and a
\* transaction begun; the transaction is ended and the connection closed),
\* and between them the statements executed: "get_or_none", "get_columns",
\* "create", "select".
with_db(statements) == <<"enter">> \o statements \o <<"exit">>

\* `with db: db_data = get_historical_values(c)`: get_data_in_range builds
\* the query and returns it; its rows are read when the query is first
\* iterated or measured
lazy_select == with_db(<<>>)

\* The storage events of save_data for n records: _get_columns, then
\* _save_object once per record
save_scopes(n) ==
    with_db(<<"get_columns">>)
    \o [k \in 1..(3 * n) |-> IF k % 3 = 1 THEN "enter"
                              ELSE IF k % 3 = 2 THEN "create" ELSE "exit"]

\* ApiDataSave._get_columns: the columns of the table but id and foreign keys
get_columns(table) ==
    IF table = "Cryptocurrency" THEN {"currency_name"}
    ELSE {"date", "open", "close", "high", "low"}

\* The rows of HistoricalValue that save_data creates from data
RECURSIVE created(_, _, _)
created(data, foreign_keys, i) ==
    IF i > Len(data) THEN EmptyBag
    ELSE SetToBag({[currency |-> foreign_keys.currency,
                    date |-> to_datetime(data[i].date),
                    close |-> data[i].close]})
         (+) created(data, foreign_keys, i + 1)

\* ApiDataSave.save_data: the saved objects and the tables afterwards;
\* KeyError when a record lacks a column.  Of the price columns a stored row
\* keeps close.
save_data(tables, data, table, foreign_keys) ==
    IF \E i \in 1..Len(data) : ~(get_columns(table) \subseteq DOMAIN data[i])
      THEN [kind |-> "KeyError", saved |-> <<>>, tables |-> tables,
            storage |-> with_db(<<"get_columns">>)]
    ELSE IF table = "Cryptocurrency"
      THEN [kind |-> "done", saved |-> [i \in 1..Len(data) |-> data[i].currency_name],
            storage |-> save_scopes(Len(data)),
            tables |-> [tables EXCEPT !.Cryptocurrency =
                           @ \cup {data[i].currency_name : i \in 1..Len(data)}]]
    ELSE [kind |-> "done", saved |-> data,
          storage |-> save_scopes(Len(data)),
          tables |-> [tables EXCEPT !.HistoricalValue =
                         @ (+) created(data, foreign_keys, 1)]]

\* ---------------------------------------------------------------- ApiWorker
\* ApiWorker._select_data keeping every record
select_all(data, selection, reject_values) == data

\* ApiWorker._select_data
select_data(data, selection, reject_values) ==
    LET kept(data_dict) ==
            \A i \in 1..Len(reject_values) : data_dict[selection] # reject_values[i]
    IN SelectSeq(data, kept)

\* ApiWorker.data_one_to_many: what it returns (has_data: the first element
\* is not None) or raises, the requests it sent and the tables afterwards.
\* selection "" is None.
data_one_to_many(tables, answers, modifications, table, foreign_keys, selection, reject_values) ==
    LET d == Downloader_get_data(answers)
        m == make_modifications(d.data, modifications)
        data == IF selection # "" THEN select_data(m.data, selection, reject_values)
                ELSE m.data
        s == save_data(tables, data, table, foreign_keys)
    IN IF ~d.has_data
         THEN [kind |-> "returned", has_data |-> FALSE, data |-> <<>>,
               error |-> d.error, sent |-> d.sent, tables |-> tables,
               storage |-> <<>>]
       ELSE IF m.kind # "done"
         THEN [kind |-> m.kind, has_data |-> FALSE, data |-> <<>>,
               error |-> <<>>, sent |-> d.sent, tables |-> tables,
               storage |-> <<>>]
       ELSE IF s.kind # "done"
         THEN [kind |-> s.kind, has_data |-> FALSE, data |-> <<>>,
               error |-> <<>>, sent |-> d.sent, tables |-> s.tables,
               storage |-> s.storage]
       ELSE [kind |-> "returned", has_data |-> TRUE, data |-> s.saved,
             error |-> <<>>, sent |-> d.sent, tables |-> s.tables,
             storage |-> s.storage]

\* ------------------------------------------------------ HistoricalCollector
\* HistoricalCollector.count_days
count_days(start_date, end_date) == (end_date - start_date) + 1

\* HistoricalCollector.date_range
date_range(start_date, days) == [i \in 1..days |-> to_string(start_date + (i - 1))]

\* dates[lo:hi], a Python slice
Slice(dates, lo, hi) ==
    SubSeq(dates, lo + 1, IF hi < Len(dates) THEN hi ELSE Len(dates))

\* requests_parameters with the number of chunks rounded down
requests_parameters_floor(start_date, end_date, entries_required, rows_limit) ==
    IF entries_required < rows_limit
      THEN << [start |-> to_string(start_date), end |-> to_string(end_date)] >>
    ELSE LET dates == date_range(start_date, entries_required)
             split_dates == [i \in 1..(Len(dates) \div rows_limit) |->
                                Slice(dates, (i - 1) * rows_limit, i * rows_limit)]
         IN [i \in 1..Len(split_dates) |->
                [start |-> split_dates[i][1],
                 end |-> split_dates[i][Len(split_dates[i])]]]

\* HistoricalCollector.requests_parameters
requests_parameters(start_date, end_date, entries_required, rows_limit) ==
    IF entries_required < rows_limit
      THEN << [start |-> to_string(start_date), end |-> to_string(end_date)] >>
    ELSE LET dates == date_range(start_date, entries_required)
             split_dates == [i \in 1..((Len(dates) + rows_limit - 1) \div rows_limit) |->
                                Slice(dates, (i - 1) * rows_limit, i * rows_limit)]
         IN [i \in 1..Len(split_dates) |->
                [start |-> split_dates[i][1],
                 end |-> split_dates[i][Len(split_dates[i])]]]

\* -------------------------------------------------------------- the remote API
\* The historical endpoint's row for day d
remote_row(d) ==
    [time_close |-> to_string(d) \o <<23, 59, 59>>,
     open |-> d % 2, high |-> (d % 2) + 1, low |-> d % 2, close |-> (d % 3)]

\* The historical endpoint's answer to {start, end}: one row for each day of
\* the range the API has data for, which is every day from first_day on
remote_answer(params, first_day) ==
    LET lower == to_datetime(params.start)
        upper == to_datetime(params.end)
        from == IF lower < first_day THEN first_day ELSE lower
    IN [kind |-> "list", body |-> [i \in 1..(upper - from + 1) |-> remote_row(from + i - 1)]]

\* What the remote API does during one get_data call: its response to the
\* currency lookup, the page request that fails (0: none) and how it fails
\* api = [lookup, fail, failure, first_day]

\* --------------------------------------------- HistoricalCollector.get_data
\* BaseModel.get_data_in_range without the bounds on the date
RECURSIVE ordered(_, _)
ordered(rows, table) ==
    IF rows = {} THEN <<>>
    ELSE LET first == CHOOSE r \in rows : \A q \in rows : r.date <= q.date
         IN [i \in 1..CopiesIn(first, table) |-> first]
            \o ordered(rows \ {first}, table)

get_data_in_range_unbounded(table, lower, upper, cryptocurrency) ==
    ordered({r \in BagToSet(table) : r.currency = cryptocurrency}, table)

\* BaseModel.get_data_in_range on HistoricalValue, with the condition on the
\* currency: the rows of the range, ordered by date
get_data_in_range(table, lower, upper, cryptocurrency) ==
    ordered({r \in BagToSet(table) :
                /\ r.currency = cryptocurrency
                /\ lower <= r.date /\ r.date <= upper}, table)

\* HistoricalCollector.get_historical_values
get_historical_values(tables, cryptocurrency, start_date, end_date) ==
    get_data_in_range(tables.HistoricalValue, start_date, end_date, cryptocurrency)

NoForeignKeys == [currency |-> ""]
Hint == "Make sure you have entered the correct cryptocurrency ID"

\* currency_looked_up without the hint on the identifier
currency_looked_up_no_hint(w) ==
    IF w.kind # "returned"
      THEN [kind |-> w.kind, has_c |-> FALSE, c |-> "", error |-> <<>>,
            lookups |-> Len(w.sent), tables |-> w.tables,
          storage |-> with_db(<<"get_or_none">>) \o w.storage]
    ELSE IF w.error = <<>>
      THEN IF w.data = <<>>
             THEN [kind |-> "IndexError", has_c |-> FALSE, c |-> "",
                   error |-> <<>>, lookups |-> Len(w.sent), tables |-> w.tables,
          storage |-> with_db(<<"get_or_none">>) \o w.storage]
           ELSE [kind |-> "returned", has_c |-> TRUE, c |-> w.data[1],
                 error |-> <<>>, lookups |-> Len(w.sent), tables |-> w.tables,
          storage |-> with_db(<<"get_or_none">>) \o w.storage]
    ELSE [kind |-> "returned", has_c |-> FALSE, c |-> "", error |-> w.error,
          lookups |-> Len(w.sent), tables |-> w.tables,
          storage |-> with_db(<<"get_or_none">>) \o w.storage]

\* HistoricalCollector.get_cryptocurrency after the lookup: w is what
\* data_one_to_many returned or raised
currency_looked_up(w) ==
    IF w.kind # "returned"
      THEN [kind |-> w.kind, has_c |-> FALSE, c |-> "", error |-> <<>>,
            lookups |-> Len(w.sent), tables |-> w.tables,
          storage |-> with_db(<<"get_or_none">>) \o w.storage]
    ELSE IF w.error = <<>>
      THEN IF w.data = <<>>
             THEN [kind |-> "IndexError", has_c |-> FALSE, c |-> "",
                   error |-> <<>>, lookups |-> Len(w.sent), tables |-> w.tables,
          storage |-> with_db(<<"get_or_none">>) \o w.storage]
           ELSE [kind |-> "returned", has_c |-> TRUE, c |-> w.data[1],
                 error |-> <<>>, lookups |-> Len(w.sent), tables |-> w.tables,
          storage |-> with_db(<<"get_or_none">>) \o w.storage]
    ELSE [kind |-> "returned", has_c |-> FALSE, c |-> "",
          error |-> IF \E i \in 1..Len(w.error) : w.error[i] = "404 Client Error"
                      THEN Append(w.error, Hint) ELSE w.error,
          lookups |-> Len(w.sent), tables |-> w.tables,
          storage |-> with_db(<<"get_or_none">>) \o w.storage]

\* HistoricalCollector.get_cryptocurrency: has_c tells that the first element
\* returned is a currency, lookups counts the lookup requests sent
get_cryptocurrency(tables, currency, api) ==
    IF currency \in tables.Cryptocurrency
      THEN [kind |-> "returned", has_c |-> TRUE, c |-> currency, error |-> <<>>,
            lookups |-> 0, tables |-> tables,
            storage |-> with_db(<<"get_or_none">>)]
    ELSE currency_looked_up(
             data_one_to_many(tables, <<api.lookup>>, CRYPTOCURRENCY_MODIFICATIONS,
                              "Cryptocurrency", NoForeignKeys, "", <<>>))

\* HistoricalCollector.get_missing_data
get_missing_data(tables, c, db_data, entries_required, start_date, end_date, limit_, api) ==
    LET params == requests_parameters(start_date, end_date, entries_required, limit_)
        reject_values == [i \in 1..Len(db_data) |-> to_string(db_data[i].date)]
        answers == [i \in 1..Len(params) |->
                       IF i = api.fail THEN api.failure
                       ELSE remote_answer(params[i], api.first_day)]
    IN data_one_to_many(tables, answers, HISTORICAL_MODIFICATIONS, "HistoricalValue",
                        [currency |-> c], "date", reject_values)

\* The gap check failing whatever is stored
never_complete(db_data, entries_required) == FALSE

\* The gap check of get_data
nothing_missing(db_data, entries_required) == Len(db_data) = entries_required

\* get_data after the gap fill: w is what get_missing_data returned or raised
missing_downloaded(g, db_data, w, start_date, end_date) ==
    IF w.kind # "returned" \/ ~w.has_data
      THEN [kind |-> w.kind, has_data |-> FALSE, data |-> <<>>, error |-> w.error,
            lookups |-> g.lookups, sent |-> w.sent, cached |-> Len(db_data),
            tables |-> w.tables,
            storage |-> g.storage \o lazy_select \o <<"select">> \o w.storage]
    ELSE [kind |-> "returned", has_data |-> TRUE,
          data |-> get_historical_values(w.tables, g.c, start_date, end_date),
          error |-> w.error, lookups |-> g.lookups, sent |-> w.sent,
          cached |-> Len(db_data), tables |-> w.tables,
          storage |-> g.storage \o lazy_select \o <<"select">> \o w.storage
                         \o lazy_select]

\* get_data after the stored rows of the range were read: db_data
values_read(g, db_data, entries_required, start_date, end_date, limit_, api) ==
    IF nothing_missing(db_data, entries_required)
      THEN [kind |-> "returned", has_data |-> TRUE, data |-> db_data, error |-> <<>>,
            lookups |-> g.lookups, sent |-> <<>>, cached |-> Len(db_data),
            tables |-> g.tables,
            storage |-> g.storage \o lazy_select \o <<"select">>]
    ELSE missing_downloaded(g, db_data,
                            get_missing_data(g.tables, g.c, db_data, entries_required,
                                             start_date, end_date, limit_, api),
                            start_date, end_date)

\* get_data after get_cryptocurrency returned or raised: g
currency_found(g, start_date, end_date, limit_, api) ==
    IF g.kind # "returned" \/ ~g.has_c
      THEN [kind |-> g.kind, has_data |-> FALSE, data |-> <<>>, error |-> g.error,
            lookups |-> g.lookups, sent |-> <<>>, cached |-> 0, tables |-> g.tables,
            storage |-> g.storage]
    ELSE values_read(g, get_historical_values(g.tables, g.c, start_date, end_date),
                     count_days(start_date, end_date), start_date, end_date, limit_, api)

\* HistoricalCollector.get_data: what it returns (has_data: the first element
\* is not None) or raises, the requests it sent, the length of the cached
\* slice and the tables afterwards
Collector_get_data(tables, currency, start_date, end_date, limit_, api) ==
    currency_found(get_cryptocurrency(tables, currency, api),
                   start_date, end_date, limit_, api)

\* ---------------------------------------------------------------- validation
\* A value 'YYYY-MM-DD' is <<year, month, day>>, a value 'YYYY-MM' is
\* <<year, month>>; any other tuple is a string of neither format.
\* try_format: the day ordinal, or None (is_none) when strptime raises
\* ValueError
try_format(value, format_) ==
    IF format_ = "%Y-%m-%d"
      THEN IF /\ Len(value) = 3
              /\ value[2] \in 1..12
              /\ value[3] \in 1..monthrange(value[1], value[2])
             THEN [is_none |-> FALSE, date |-> to_datetime(value)]
           ELSE [is_none |-> TRUE, date |-> 0]
    ELSE IF Len(value) = 2 /\ value[2] \in 1..12
      THEN [is_none |-> FALSE, date |-> to_datetime(<<value[1], value[2], 1>>)]
    ELSE [is_none |-> TRUE, date |-> 0]

\* validation.last_day
last_day(date) ==
    to_datetime(<<to_string(date)[1], to_string(date)[2],
                  monthrange(to_string(date)[1], to_string(date)[2])>>)

\* validate_start_date without the comparison with the end date
validate_start_date_unchecked(obj, value) ==
    LET full == try_format(value, "%Y-%m-%d")
        short == try_format(value, "%Y-%m")
        start_date == IF ~full.is_none THEN full.date ELSE short.date
    IN IF full.is_none /\ short.is_none
         THEN [kind |-> "BadParameter", obj |-> obj, value |-> 0]
       ELSE [kind |-> "returned", obj |-> SetKey(obj, "start", start_date),
             value |-> start_date]

\* validate_start_date: the value returned or BadParameter raised, and
\* ctx.obj afterwards
validate_start_date(obj, value) ==
    LET full == try_format(value, "%Y-%m-%d")
        short == try_format(value, "%Y-%m")
        start_date == IF ~full.is_none THEN full.date ELSE short.date
    IN IF full.is_none /\ short.is_none
         THEN [kind |-> "BadParameter", obj |-> obj, value |-> 0]
       ELSE IF "end" \in DOMAIN obj /\ start_date > obj["end"]
         THEN [kind |-> "BadParameter", obj |-> SetKey(obj, "start", start_date),
               value |-> 0]
       ELSE [kind |-> "returned", obj |-> SetKey(obj, "start", start_date),
             value |-> start_date]

\* validate_end_date
validate_end_date(obj, value) ==
    LET full == try_format(value, "%Y-%m-%d")
        short == try_format(value, "%Y-%m")
        end_date == IF ~full.is_none THEN full.date ELSE last_day(short.date)
    IN IF full.is_none /\ short.is_none
         THEN [kind |-> "BadParameter", obj |-> obj, value |-> 0]
       ELSE IF "start" \in DOMAIN obj /\ end_date < obj["start"]
         THEN [kind |-> "BadParameter", obj |-> SetKey(obj, "end", end_date),
               value |-> 0]
       ELSE [kind |-> "returned", obj |-> SetKey(obj, "end", end_date),
             value |-> end_date]

\* ------------------------------------------------------ historical_functions
\* wrapper running the body of the command whatever the number of records
wrapper_runs_on_empty(r) ==
    IF r.kind # "returned"
      THEN [exit_code |-> 1, message |-> <<"Traceback", r.kind>>, body |-> FALSE]
    ELSE IF r.error # <<>>
      THEN [exit_code |-> 1, message |-> <<"error_message">> \o r.error, body |-> FALSE]
    ELSE [exit_code |-> 0, message |-> <<>>, body |-> TRUE]

\* The wrapper of historical_functions after c.get_data(): r is what get_data
\* returned or raised.  sys.exit with a message ends the command with exit
\* code 1, and so does an exception get_data raised; body: cli_function was
\* called.
wrapper(r) ==
    IF r.kind # "returned"
      THEN [exit_code |-> 1, message |-> <<"Traceback", r.kind>>, body |-> FALSE]
    ELSE IF r.error # <<>>
      THEN [exit_code |-> 1, message |-> <<"error_message">> \o r.error, body |-> FALSE]
    ELSE IF Len(r.data) = 0
      THEN [exit_code |-> 1, message |-> <<"no_data_message">>, body |-> FALSE]
    ELSE [exit_code |-> 0, message |-> <<>>, body |-> TRUE]

\* ----------------------------------------------------- the streak analytics
Unset == [kind |-> "unset"]

IdleStreak == historical_data = <<>> /\ growth = Unset /\ echo = Unset
IdlePages == collector = Unset /\ limit = 0 /\ pages = Unset
IdleDownload == parameters = <<>> /\ responses = <<>> /\ downloader = Unset
IdleCollect == db = Unset /\ launch = 0 /\ ROWS_LIMIT = 0 /\ call = Unset
IdleModify == modifier_data = <<>> /\ modifier_rules = <<>> /\ modifier = Unset
IdleAverage == average = Unset
IdleValidate == args = Unset /\ ctx_obj = <<>> /\ parsing = Unset

\* A series of one record per consecutive day, as HistoricalCollector.get_data
\* returns it, with any prices
Series ==
    UNION {{[i \in 1..n |-> [date |-> i - 1, close |-> p[i]]] :
               p \in [1..n -> 0..MaxPrice]} : n \in 0..MaxLen}

InitStreak ==
    /\ historical_data \in Series
    /\ growth = Unset
    /\ echo = Unset
    /\ IdlePages /\ IdleDownload /\ IdleCollect /\ IdleModify /\ IdleAverage /\ IdleValidate

CallLongestGrowthPeriod ==
    /\ growth = Unset
    /\ growth' = longest_growth_period(historical_data, "close")
    /\ UNCHANGED <<historical_data, echo, pages_vars, download_vars, collect_vars, modify_vars, average_vars, validate_vars>>

RunConsecutiveIncrease ==
    /\ echo = Unset
    /\ echo' = consecutive_increase(historical_data, "close")
    /\ UNCHANGED <<historical_data, growth, pages_vars, download_vars, collect_vars, modify_vars, average_vars, validate_vars>>

NextStreak == CallLongestGrowthPeriod \/ RunConsecutiveIncrease

SpecStreak == InitStreak /\ [][NextStreak]_vars

\* ------------------------------------------------ claims on the analytics
Prices == list_values(historical_data, "close")
PriceAt(i) == Prices[i + 1]

\* The pairs left after the pairing rule (none when the rule cannot be applied)
Remaining ==
    IF Len(historical_data) < 2 THEN <<>> ELSE paired(Prices).pairs

\* pair = <<index of the minimum, index of the maximum>>
Gain(pair) == Abs(PriceAt(pair[2]) - PriceAt(pair[1]))
Span(pair) == Abs(pair[2] - pair[1])

MaximalGain(pair) == \A i \in 1..Len(Remaining) : Gain(pair) >= Gain(Remaining[i])
MaximalSpan(pair) == \A i \in 1..Len(Remaining) : Span(pair) >= Span(Remaining[i])

\* C1 as stated: whenever a pair is left after the pairing rule,
\* longest_growth_period returns exactly the pairs of maximal absolute price
\* gain, in their original order.
C1_MaximalGainPairs ==
    (growth # Unset /\ Remaining # <<>>) =>
        /\ growth.kind = "pairs"
        /\ growth.pairs = SelectSeq(Remaining, MaximalGain)

\* C1 as amended: whenever a pair is left after the pairing rule,
\* longest_growth_period returns exactly the pairs whose length (the distance
\* between the index of the minimum and the index of the maximum) is the
\* greatest over all pairs, in their original order: all of them when
\* several tie, one when a single pair is longest.
C1_LongestPairs ==
    (growth # Unset /\ Remaining # <<>>) =>
        /\ growth.kind = "pairs"
        /\ growth.pairs = SelectSeq(Remaining, MaximalSpan)

\* Two pairs of the same length and of different gains are both returned
C1_Witness ==
    /\ growth # Unset
    /\ growth.kind = "pairs"
    /\ Len(growth.pairs) = 2
    /\ Gain(growth.pairs[1]) # Gain(growth.pairs[2])

\* C7: longest_growth_period ends with "no result" (a series shorter than 2,
\* or no pair left after the pairing rule, as for an all-equal series) or
\* with a non-empty collection of runs, and in no other way.
C7_NoneOrRuns ==
    growth # Unset =>
        /\ growth.kind \in {"None", "pairs"}
        /\ growth.kind = "pairs" => growth.pairs # <<>>
        /\ Remaining = <<>> => growth.kind = "None"

\* A price no neighbour is below, and a price no neighbour is above
IsTrough(i) ==
    /\ i \in 0..(Len(Prices) - 1)
    /\ i > 0 => PriceAt(i - 1) >= PriceAt(i)
    /\ i < Len(Prices) - 1 => PriceAt(i + 1) >= PriceAt(i)
IsPeak(j) ==
    /\ j \in 0..(Len(Prices) - 1)
    /\ j > 0 => PriceAt(j - 1) <= PriceAt(j)
    /\ j < Len(Prices) - 1 => PriceAt(j + 1) <= PriceAt(j)

\* C17: every run (i, j) longest_growth_period returns is an increase from
\* a trough to a peak: i is the index of a local minimum, j the index of a
\* local maximum, i < j, and the price at j is strictly greater than the
\* price at i; for every series of length >= 2, series with equal adjacent
\* prices included.
C17_TroughToPeak ==
    (growth # Unset /\ Len(Prices) >= 2 /\ growth.kind = "pairs") =>
        \A k \in 1..Len(growth.pairs) :
            /\ IsTrough(growth.pairs[k][1])
            /\ IsPeak(growth.pairs[k][2])
            /\ growth.pairs[k][1] < growth.pairs[k][2]
            /\ PriceAt(growth.pairs[k][2]) > PriceAt(growth.pairs[k][1])

StrictlyIncreasing ==
    \A i \in 1..(Len(Prices) - 1) : Prices[i] < Prices[i + 1]
StrictlyDecreasing ==
    \A i \in 1..(Len(Prices) - 1) : Prices[i] > Prices[i + 1]

\* C8: a strictly increasing series of length >= 2 yields exactly one run,
\* from index 0 to index n - 1; a strictly decreasing one yields no run.
C8_Monotonic ==
    (growth # Unset /\ Len(Prices) >= 2) =>
        /\ StrictlyIncreasing =>
              growth = [kind |-> "pairs", pairs |-> << <<0, Len(Prices) - 1>> >>]
        /\ StrictlyDecreasing => growth.kind = "None"

C8_Witness ==
    /\ growth # Unset
    /\ Len(Prices) >= 3
    /\ StrictlyIncreasing
    /\ growth.kind = "pairs"

\* What the command is to report of a detected period
DateAt(i) == to_string(historical_data[i + 1].date)
LineDays(line) == Abs(to_datetime(line.last_day) - to_datetime(line.first_day))
DaysOf(pair) == Abs(historical_data[pair[2] + 1].date - historical_data[pair[1] + 1].date)
LongestDays(pair) == \A i \in 1..Len(Remaining) : DaysOf(pair) >= DaysOf(Remaining[i])
Longest == SelectSeq(Remaining, LongestDays)

\* The gain as printed: exact below one cent, else the nearest whole cent
Printed(amount, gain) ==
    IF gain < 2 THEN amount = gain
    ELSE amount % 2 = 0 /\ Abs(amount - gain) <= 1

\* C9: the consecutive-increase command reports every detected period whose
\* length in days is the greatest over all detected periods, in
\* chronological order, each with its own start date, end date and gain; a
\* single longest period is reported alone as the longest one.
C9_ReportsLongest ==
    (echo # Unset /\ Remaining # <<>>) =>
        /\ Len(echo.lines) = Len(Longest)
        /\ \A i \in 1..Len(Longest) :
              /\ echo.lines[i].first_day = DateAt(Longest[i][1])
              /\ echo.lines[i].last_day = DateAt(Longest[i][2])
              /\ Printed(echo.lines[i].amount, Gain(Longest[i]))
              /\ \A j \in 1..Len(Remaining) : LineDays(echo.lines[i]) >= DaysOf(Remaining[j])
        /\ \A i, j \in 1..Len(echo.lines) :
              i < j => to_datetime(echo.lines[i].first_day)
                         < to_datetime(echo.lines[j].first_day)
        /\ echo.kind = IF Len(Longest) = 1 THEN "Longest consecutive period"
                       ELSE "More than one consecutive period"

\* Tied periods of different gains are reported together
C9_Witness ==
    /\ echo # Unset
    /\ echo.kind = "More than one consecutive period"
    /\ Len(echo.lines) = 2
    /\ echo.lines[1].amount # echo.lines[2].amount

\* ------------------------------------------------------- the page splitting
FirstStart == to_datetime(<<2020, 2, 28>>)

InitPages ==
    /\ \E s \in FirstStart..(FirstStart + MaxShift), n \in 1..MaxDays :
          collector = [start_date |-> s, end_date |-> s + n - 1]
    /\ limit \in 1..MaxLimit
    /\ pages = Unset
    /\ IdleStreak /\ IdleDownload /\ IdleCollect /\ IdleModify /\ IdleAverage /\ IdleValidate

CallRequestsParameters ==
    /\ pages = Unset
    /\ pages' = [kind |-> "returned",
                 value |-> requests_parameters(
                     collector.start_date, collector.end_date,
                     count_days(collector.start_date, collector.end_date), limit)]
    /\ UNCHANGED <<collector, limit, streak_vars, download_vars, collect_vars, modify_vars, average_vars, validate_vars>>

NextPages == CallRequestsParameters

SpecPages == InitPages /\ [][NextPages]_vars

Pages == pages.value
Required == count_days(collector.start_date, collector.end_date)
PageStart(i) == to_datetime(Pages[i].start)
PageEnd(i) == to_datetime(Pages[i].end)

\* C6: requests_parameters yields the single page {start, end} when
\* required < limit, and otherwise ceil(required / limit) pages, the i-th
\* from the first to the last date of the i-th chunk of at most limit
\* consecutive dates; the pages are ascending, pairwise disjoint and cover
\* exactly the dates of [start, end].
C6_PageSplitting ==
    pages # Unset =>
        /\ Required < limit =>
              Pages = << [start |-> to_string(collector.start_date),
                          end |-> to_string(collector.end_date)] >>
        /\ Required >= limit =>
              /\ Len(Pages) * limit >= Required
              /\ (Len(Pages) - 1) * limit < Required
              /\ \A i \in 1..Len(Pages) :
                    /\ Pages[i].start
                         = to_string(collector.start_date + (i - 1) * limit)
                    /\ Pages[i].end
                         = to_string(IF i < Len(Pages)
                                       THEN collector.start_date + i * limit - 1
                                       ELSE collector.end_date)
        /\ Len(Pages) >= 1
        /\ PageStart(1) = collector.start_date
        /\ PageEnd(Len(Pages)) = collector.end_date
        /\ \A i \in 1..Len(Pages) : PageStart(i) <= PageEnd(i)
        /\ \A i \in 1..(Len(Pages) - 1) : PageStart(i + 1) = PageEnd(i) + 1

\* A range split into several pages, the last one shorter, across the end of
\* a month
C6_Witness ==
    /\ pages # Unset
    /\ Len(Pages) >= 2
    /\ Required % limit # 0
    /\ Pages[1].start[2] # Pages[Len(Pages)].end[2]

\* ------------------------------------------------------------ the download
Failures ==
    { [kind |-> "HTTPError", text |-> "404 Client Error"],
      [kind |-> "HTTPError", text |-> "500 Server Error"],
      [kind |-> "Timeout", text |-> "read timed out"],
      [kind |-> "ConnectTimeout", text |-> "connect timed out"],
      [kind |-> "ConnectionError", text |-> "connection refused"],
      [kind |-> "RequestException", text |-> "too many redirects"] }

\* The responses the remote API may give to parameter set i: a list of rows,
\* a single object, or a failure
Responses(i) ==
    { [kind |-> "list", body |-> [k \in 1..n |-> [id |-> <<i, k>>]]] : n \in 0..MaxRows }
    \cup { [kind |-> "object", body |-> [id |-> <<i, 0>>]] }
    \cup Failures

InitDownload ==
    /\ \E n \in 0..MaxPages :
          /\ parameters = [i \in 1..n |-> [page |-> i]]
          /\ \E f \in [1..n -> UNION {Responses(i) : i \in 1..n}] :
                /\ \A i \in 1..n : f[i] \in Responses(i)
                /\ responses = f
    /\ downloader = Unset
    /\ IdleStreak /\ IdlePages /\ IdleCollect /\ IdleModify /\ IdleAverage /\ IdleValidate

CallDownloaderGetData ==
    /\ downloader = Unset
    /\ downloader' = Downloader_get_data(responses)
    /\ UNCHANGED <<parameters, responses, streak_vars, pages_vars, collect_vars, modify_vars, average_vars, validate_vars>>

NextDownload == CallDownloaderGetData

SpecDownload == InitDownload /\ [][NextDownload]_vars

Failed(i) == responses[i] \in Failures

\* The payload of page i as a sequence of rows
Payload(i) ==
    IF responses[i].kind = "list" THEN responses[i].body ELSE <<responses[i].body>>

RECURSIVE Concatenation(_)
Concatenation(n) == IF n = 0 THEN <<>> ELSE Concatenation(n - 1) \o Payload(n)

ErrorClasses == {"HTTP Error", "Timeout Error", "Connection Error", "Request Error"}

\* C5: after ApiDataDownloader.get_data, either data is the concatenation of
\* every page's payload in page order and error is unset, or data is absent
\* and error is a classified error; data is never the concatenation of some
\* pages only, and never absent with error unset.
C5_AllOrNothing ==
    downloader # Unset =>
        \/ /\ downloader.has_data
           /\ downloader.error = <<>>
           /\ \A i \in 1..Len(responses) : ~Failed(i)
           /\ downloader.data = Concatenation(Len(responses))
        \/ /\ ~downloader.has_data
           /\ downloader.error # <<>>
           /\ downloader.error[1] \in ErrorClasses
           /\ \E i \in 1..Len(responses) : Failed(i)

\* A page fails after two pages brought rows
C5_Witness ==
    /\ downloader # Unset
    /\ Len(responses) = 3
    /\ ~Failed(1) /\ Len(Payload(1)) > 0
    /\ ~Failed(2) /\ Len(Payload(2)) > 0
    /\ Failed(3)
    /\ ~downloader.has_data

\* C18: within one call of ApiDataDownloader.get_data the page requests are
\* issued one at a time in page order, each page at most once, and no
\* request is issued after the first request that fails.
C18_InOrderUntilFailure ==
    downloader # Unset =>
        /\ Len(downloader.sent) <= Len(parameters)
        /\ \A p \in 1..Len(downloader.sent) : downloader.sent[p] = p
        /\ \A p \in 1..(Len(downloader.sent) - 1) : ~Failed(downloader.sent[p])
        /\ (\A i \in 1..Len(responses) : ~Failed(i)) =>
              Len(downloader.sent) = Len(parameters)

\* The second of three requests fails and the third page, which would have
\* answered, is not requested
C18_Witness ==
    /\ downloader # Unset
    /\ Len(responses) = 3
    /\ ~Failed(1) /\ Failed(2) /\ ~Failed(3)
    /\ downloader.sent = <<1, 2>>

\* ---------------------------------------------------------------- get_data
Currencies == {"btc-bitcoin", "eth-ethereum", "no-coin"}
Stored == {"btc-bitcoin", "eth-ethereum"}

StartDays == FirstStart..(FirstStart + MaxOffset)
AllDays == FirstStart..(FirstStart + MaxOffset + MaxSpan - 1)

NoFailure == [kind |-> "none", text |-> ""]

NoCall ==
    [currency |-> "", start_date |-> 0, end_date |-> 0, kind |-> "none",
     has_data |-> FALSE, data |-> <<>>, error |-> <<>>, lookups |-> 0,
     sent |-> <<>>, cached |-> 0, fail |-> 0, failure |-> NoFailure,
     again |-> FALSE, lookup |-> NoFailure,
     exit_code |-> 0, message |-> <<>>, body |-> FALSE, storage |-> <<>>]

\* The row stored for a day the remote API once served
stored_row(name, d) == [currency |-> name, date |-> d, close |-> remote_row(d).close]

\* The tables hold two currencies looked up before: of the first any of the
\* days the remote API serves, of the second every one of them
Init ==
    /\ launch \in FirstStart..(FirstStart + MaxLaunch)
    /\ ROWS_LIMIT \in 1..MaxRowsLimit
    /\ \E seeded \in SUBSET {d \in AllDays : d >= launch} :
          db = [Cryptocurrency |-> Stored,
                HistoricalValue |->
                    SetToBag({stored_row("btc-bitcoin", d) : d \in seeded}
                             \cup {stored_row("eth-ethereum", d) :
                                      d \in {x \in AllDays : x >= launch}})]
    /\ call = NoCall
    /\ IdleStreak /\ IdlePages /\ IdleDownload /\ IdleModify /\ IdleAverage /\ IdleValidate

\* The failures of the remote API during get_data calls
ApiFailures ==
    { [kind |-> "HTTPError", text |-> "404 Client Error"],
      [kind |-> "HTTPError", text |-> "500 Server Error"],
      [kind |-> "Timeout", text |-> "read timed out"] }

\* What the remote API may do during one get_data call for a currency over n
\* days: answer a lookup for a currency that is not stored or fail it, and
\* answer every page request or fail one of them
Apis(name, n) ==
    IF name \in db.Cryptocurrency
      THEN {[lookup |-> NoFailure, fail |-> 0, failure |-> NoFailure, first_day |-> launch]}
           \cup {[lookup |-> NoFailure, fail |-> k, failure |-> f, first_day |-> launch] :
                     k \in 1..n, f \in ApiFailures}
    ELSE {[lookup |-> [kind |-> "object", body |-> [id |-> name]],
           fail |-> 0, failure |-> NoFailure, first_day |-> launch]}
         \cup {[lookup |-> f, fail |-> 0, failure |-> NoFailure, first_day |-> launch] :
                   f \in ApiFailures}

\* One get_data call of a command, with what the remote API does during it.
\* Of the call the record keeps the arguments, the outcome, the page request
\* that failed and how, again: the call before had the same arguments, sent
\* page requests and returned every record of the range, lookup: the
\* remote API's response to the currency lookup, when one was sent, and how
\* the command ended: its exit code, its message and whether its body ran.
GetData ==
    \E name \in Currencies, s \in StartDays, n \in 1..MaxSpan :
      \E api \in Apis(name, n) :
        \E r \in {Collector_get_data(db, name, s, s + n - 1, ROWS_LIMIT, api)} :
          \E failed \in {api.fail \in 1..Len(r.sent) /\ r.sent[Len(r.sent)] = api.fail} :
           /\ db' = r.tables
           /\ call' = [currency |-> name, start_date |-> s, end_date |-> s + n - 1,
                       kind |-> r.kind, has_data |-> r.has_data, data |-> r.data,
                       error |-> r.error, lookups |-> r.lookups, sent |-> r.sent,
                       cached |-> r.cached,
                       fail |-> IF failed THEN api.fail ELSE 0,
                       failure |-> IF failed THEN api.failure ELSE NoFailure,
                       again |-> /\ call.currency = name
                                 /\ call.start_date = s
                                 /\ call.end_date = s + n - 1
                                 /\ call.kind = "returned"
                                 /\ call.has_data
                                 /\ call.sent # <<>>
                                 /\ Len(call.data) = n,
                       lookup |-> IF r.lookups > 0 THEN api.lookup ELSE NoFailure,
                       exit_code |-> wrapper(r).exit_code,
                       message |-> wrapper(r).message,
                       body |-> wrapper(r).body,
                       storage |-> r.storage]
           /\ UNCHANGED <<launch, ROWS_LIMIT, streak_vars, pages_vars, download_vars, modify_vars, average_vars, validate_vars>>

Next == GetData

Spec == Init /\ [][Next]_vars
\* --------------------------------------------------------- claims on get_data
Called == call.kind # "none"
CallDays == count_days(call.start_date, call.end_date)
ReturnedData == call.kind = "returned" /\ call.error = <<>>
Ascending(data) == \A i \in 1..(Len(data) - 1) : data[i].date < data[i + 1].date

\* C2 as stated: when get_data returns without error, the returned sequence
\* has exactly (end - start).days + 1 records, no date twice, dates ascending.
C2_FullRange ==
    (Called /\ ReturnedData) =>
        /\ call.has_data
        /\ Len(call.data) = CallDays
        /\ Ascending(call.data)

\* C2 as amended: when get_data returns without error, the returned sequence
\* holds one record of the currency for each date of the range the remote
\* API has a row for (every date stored is one of them) and no other, dates
\* ascending and none twice: (end - start).days + 1 records when the API
\* has a row for every date of the range, fewer otherwise.
C2_ServedRange ==
    (Called /\ ReturnedData) =>
        /\ call.has_data
        /\ Ascending(call.data)
        /\ \A i \in 1..Len(call.data) : call.data[i].currency = call.currency
        /\ {call.data[i].date : i \in 1..Len(call.data)}
             = {d \in call.start_date..call.end_date : d >= launch}
        /\ Len(call.data) <= CallDays
        /\ call.start_date >= launch => Len(call.data) = CallDays

\* A gap beside dates already stored is filled
C2_Witness ==
    /\ Called /\ ReturnedData
    /\ call.cached > 0
    /\ call.cached < CallDays
    /\ call.sent # <<>>
    /\ Len(call.data) = CallDays

SameArguments ==
    /\ call'.currency = call.currency
    /\ call'.start_date = call.start_date
    /\ call'.end_date = call.end_date

NoRequests(c) == c.lookups = 0 /\ c.sent = <<>>

\* C3 as stated: a get_data call with the arguments of the call before it
\* sends no request, neither a lookup nor a page request, and returns the
\* record sequence the first call returned.
C3_SecondCallCached ==
    [][(Called /\ SameArguments) =>
          /\ NoRequests(call')
          /\ call'.kind = call.kind
          /\ call'.has_data = call.has_data
          /\ call'.data = call.data]_vars

\* C3 as amended: when a get_data call returned without error every record
\* of the range, (end - start).days + 1 of them, the next call with the same
\* arguments sends no request and returns the same record sequence.
C3_SecondCallCachedAfterFull ==
    [][(/\ Called /\ SameArguments
        /\ ReturnedData /\ call.has_data
        /\ Len(call.data) = CallDays) =>
          /\ NoRequests(call')
          /\ call'.kind = "returned"
          /\ call'.error = <<>>
          /\ call'.has_data
          /\ call'.data = call.data]_vars

\* The call repeats one that fetched the range, and sends nothing
C3_Witness ==
    /\ call.again
    /\ NoRequests(call)
    /\ Len(call.data) = CallDays

\* C4: in every state reached by get_data calls, HistoricalValue holds at
\* most one row for a currency and a date.
C4_OneRowPerDay ==
    db # Unset =>
        \A r, q \in BagToSet(db.HistoricalValue) :
            (r.currency = q.currency /\ r.date = q.date) =>
                (r = q /\ CopiesIn(r, db.HistoricalValue) = 1)

\* Rows were saved for a range of which some dates were stored already
C4_Witness ==
    /\ Called /\ ReturnedData
    /\ call.cached > 0
    /\ call.sent # <<>>
    /\ Len(call.data) > call.cached

\* The message _send_request leaves for a failure
Classified(failure) ==
    << IF failure.kind = "HTTPError" THEN "HTTP Error"
       ELSE IF failure.kind = "RequestException" THEN "Request Error"
       ELSE IF failure.kind = "ConnectionError" THEN "Connection Error"
       ELSE "Timeout Error",
       failure.text >>

\* C10: when a page request fails during the gap fill, get_data ends without
\* another request, returns that transport error and no data, and the tables
\* hold what they held before the call.
C10_FailedFetch ==
    [][call'.fail > 0 =>
          /\ call'.kind = "returned"
          /\ ~call'.has_data
          /\ call'.error = Classified(call'.failure)
          /\ call'.sent = [i \in 1..call'.fail |-> i]
          /\ db' = db]_vars

\* The second page fails after the first was fetched
C10_Witness ==
    /\ call.fail = 2
    /\ ~call.has_data
    /\ call.error # <<>>

Hinted(error) == \E i \in 1..Len(error) : error[i] = Hint

\* C11 as stated: whenever the lookup of a currency absent from storage gets
\* a non-2xx response, of any status, get_data fails with an error message
\* that contains the hint on the identifier, and no currency is persisted.
C11_HintOnAnyStatus ==
    [][call'.lookup.kind = "HTTPError" =>
          /\ call'.kind = "returned"
          /\ ~call'.has_data
          /\ call'.error # <<>>
          /\ Hinted(call'.error)
          /\ db' = db]_vars

\* C11 as amended: whenever the lookup of a currency absent from storage gets
\* a non-2xx response, get_data fails with the HTTP error and no currency is
\* persisted; the message contains the hint on the identifier when, and only
\* when, the response is 404 Client Error.
C11_HintOnNotFound ==
    [][call'.lookup.kind = "HTTPError" =>
          /\ call'.kind = "returned"
          /\ ~call'.has_data
          /\ call'.error # <<>>
          /\ call'.error[1] = "HTTP Error"
          /\ Hinted(call'.error) <=> call'.lookup.text = "404 Client Error"
          /\ db' = db]_vars

\* A lookup was answered 404 and the call failed with the hint
C11_Witness ==
    /\ call.lookup.kind = "HTTPError"
    /\ call.lookup.text = "404 Client Error"
    /\ call.currency \notin db.Cryptocurrency
    /\ Hinted(call.error)

\* C15: the wrapper runs the body of the command only when get_data
\* returned no error and at least one record; on a fetch error and on zero
\* records it exits with a non-zero code and the message of that kind, and
\* the body is not run.
C15_BodyOnlyOnData ==
    Called =>
        /\ call.body <=> (/\ call.kind = "returned" /\ call.error = <<>>
                          /\ call.has_data /\ Len(call.data) > 0)
        /\ ~call.body => call.exit_code # 0
        /\ (call.kind = "returned" /\ call.error # <<>>) =>
              call.message = <<"error_message">> \o call.error
        /\ (call.kind = "returned" /\ call.error = <<>> /\ Len(call.data) = 0) =>
              call.message = <<"no_data_message">>

\* get_data returned no record and no error, and the command ended with the
\* message for no data
C15_Witness ==
    /\ Called
    /\ call.kind = "returned" /\ call.error = <<>> /\ call.data = <<>>
    /\ call.message = <<"no_data_message">>
    /\ call.exit_code = 1

\* The blocks `with db:` open when event k of a trace happens
Entered(trace, k) == Cardinality({i \in 1..(k - 1) : trace[i] = "enter"})
Left(trace, k) == Cardinality({i \in 1..(k - 1) : trace[i] = "exit"})
InScope(trace, k) == Entered(trace, k) > Left(trace, k)
Statement(event) == event \notin {"enter", "exit"}

\* Every statement is executed inside a block
AllInScope(trace) ==
    \A k \in 1..Len(trace) : Statement(trace[k]) => InScope(trace, k)

\* The records of a batch are all inserted inside the same block
OneScopePerBatch(trace) ==
    \A j \in 1..Len(trace), k \in 1..Len(trace) :
        (j < k /\ trace[j] = "create" /\ trace[k] = "create") =>
            \A i \in j..k : trace[i] # "exit"

\* Every block entered was left, and nothing was executed after the last
\* block was left (a statement outside a block opens a connection that
\* nothing closes)
AllReleased(trace) ==
    /\ Entered(trace, Len(trace) + 1) = Left(trace, Len(trace) + 1)
    /\ trace # <<>> => trace[Len(trace)] = "exit"

\* C19: in get_data each logical storage unit (the currency lookup, the
\* batch insert of all the fetched records, each range read) is executed
\* inside one open transactional scope, every storage read or write happens
\* while a scope is open, and on every exit path of get_data no scope or
\* connection the call opened is left open.
C19_ScopedStorage ==
    Called =>
        /\ AllInScope(call.storage)
        /\ OneScopePerBatch(call.storage)
        /\ AllReleased(call.storage)

\* --------------------------------------------------------- the modifications
\* Records of the remote API: the lookup endpoint's object, with and without
\* its id, and rows of the historical endpoint with a timestamp, with one
\* that names no day of the calendar, and with none
RawRecords ==
    { [id |-> "btc-bitcoin", name |-> "Bitcoin"],
      [name |-> "Bitcoin"],
      [time_close |-> <<2020, 2, 29, 23, 59, 59>>, close |-> 1],
      [time_close |-> <<2020, 2, 30, 23, 59, 59>>, close |-> 1],
      [close |-> 1] }

\* The rule lists of settings, and rules on the modifier's other method
RuleLists ==
    { HISTORICAL_MODIFICATIONS,
      CRYPTOCURRENCY_MODIFICATIONS,
      << [function |-> "_currency_name", args |-> <<"id", "currency_name">>] >>,
      HISTORICAL_MODIFICATIONS
        \o << [function |-> "_currency_name", args |-> <<"id", "currency_name">>] >> }

InitModify ==
    /\ \E n \in 0..MaxRecords : modifier_data \in [1..n -> RawRecords]
    /\ modifier_rules \in RuleLists
    /\ modifier = Unset
    /\ IdleStreak /\ IdlePages /\ IdleDownload /\ IdleCollect /\ IdleAverage /\ IdleValidate

CallMakeModifications ==
    /\ modifier = Unset
    /\ modifier' = make_modifications(modifier_data, modifier_rules)
    /\ UNCHANGED <<modifier_data, modifier_rules, streak_vars, pages_vars, download_vars, collect_vars, average_vars, validate_vars>>

NextModify == CallMakeModifications

SpecModify == InitModify /\ [][NextModify]_vars

\* C12: the currency rules of settings applied to lookup records that have
\* an id yield records with the id under currency_name, and every rule of
\* the configured rule lists names a transformation the modifier defines,
\* with as many arguments as it takes.
C12_CurrencyRulesApply ==
    (/\ modifier # Unset
     /\ modifier_rules = CRYPTOCURRENCY_MODIFICATIONS
     /\ modifier_data # <<>>
     /\ \A i \in 1..Len(modifier_data) : "id" \in DOMAIN modifier_data[i]) =>
        /\ modifier.kind = "done"
        /\ \A i \in 1..Len(modifier_data) :
              /\ "currency_name" \in DOMAIN modifier.data[i]
              /\ modifier.data[i].currency_name = modifier_data[i].id
        /\ \A configured \in {HISTORICAL_MODIFICATIONS, CRYPTOCURRENCY_MODIFICATIONS} :
              \A i \in 1..Len(configured) :
                  /\ configured[i].function \in ModifierMethods
                  /\ Len(configured[i].args) = Arity(configured[i].function)

\* What a rule is to do to a record: insert the derived value under the new
\* key, or leave the record as it is when the source field is missing or
\* does not parse
ComputeOrSkip(dict_obj, rule) ==
    IF rule.args[1] \notin DOMAIN dict_obj THEN dict_obj
    ELSE IF rule.function = "_format_date"
      THEN IF parses(dict_obj[rule.args[1]])
             THEN [k \in (DOMAIN dict_obj) \cup {rule.args[2]} |->
                      IF k = rule.args[2]
                        THEN SubSeq(dict_obj[rule.args[1]], 1, 3)
                      ELSE dict_obj[k]]
           ELSE dict_obj
    ELSE [k \in (DOMAIN dict_obj) \cup {rule.args[2]} |->
             IF k = rule.args[2] THEN dict_obj[rule.args[1]] ELSE dict_obj[k]]

RECURSIVE AllComputedOrSkipped(_, _, _)
AllComputedOrSkipped(dict_obj, rule_list, i) ==
    IF i > Len(rule_list) THEN dict_obj
    ELSE AllComputedOrSkipped(ComputeOrSkip(dict_obj, rule_list[i]), rule_list, i + 1)

\* C13: every rule, on every record, inserts the derived value under the new
\* key and changes no other key, or leaves the record as it is when the
\* source field is missing or does not parse, and raises nothing;
\* make_modifications keeps the number and the order of the records.
C13_ComputeOrSkip ==
    modifier # Unset =>
        /\ modifier.kind = "done"
        /\ Len(modifier.data) = Len(modifier_data)
        /\ \A i \in 1..Len(modifier_data) :
              modifier.data[i] = AllComputedOrSkipped(modifier_data[i], modifier_rules, 1)

\* ------------------------------------------------------------ the validation
\* Values of the two options: dates around the end of February 2020, months,
\* and strings of neither format
DateInputs ==
    { <<2020, 2, 28>>, <<2020, 2, 29>>, <<2020, 3, 1>>, <<2020, 2>>, <<2020, 3>>,
      <<2020, 2, 30>>, <<2020, 13>>, <<>> }

InitValidate ==
    /\ \E s \in DateInputs, e \in DateInputs, f \in {"start_date", "end_date"} :
          args = [start_date |-> s, end_date |-> e, first |-> f]
    /\ ctx_obj = <<>>
    /\ parsing = [status |-> "parsing", done |-> {}, start_date |-> 0, end_date |-> 0]
    /\ IdleStreak /\ IdlePages /\ IdleDownload /\ IdleCollect /\ IdleModify /\ IdleAverage

\* click runs the callback of --start-date
ValidateStartDate ==
    /\ parsing # Unset /\ parsing.status = "parsing"
    /\ "start_date" \notin parsing.done
    /\ args.first = "start_date" \/ "end_date" \in parsing.done
    /\ \E v \in {validate_start_date(ctx_obj, args.start_date)} :
          /\ ctx_obj' = v.obj
          /\ parsing' = [parsing EXCEPT
                            !.status = IF v.kind = "returned" THEN @ ELSE v.kind,
                            !.done = @ \cup {"start_date"},
                            !.start_date = v.value]
    /\ UNCHANGED <<args, streak_vars, pages_vars, download_vars, collect_vars, modify_vars, average_vars>>

\* click runs the callback of --end-date
ValidateEndDate ==
    /\ parsing # Unset /\ parsing.status = "parsing"
    /\ "end_date" \notin parsing.done
    /\ args.first = "end_date" \/ "start_date" \in parsing.done
    /\ \E v \in {validate_end_date(ctx_obj, args.end_date)} :
          /\ ctx_obj' = v.obj
          /\ parsing' = [parsing EXCEPT
                            !.status = IF v.kind = "returned" THEN @ ELSE v.kind,
                            !.done = @ \cup {"end_date"},
                            !.end_date = v.value]
    /\ UNCHANGED <<args, streak_vars, pages_vars, download_vars, collect_vars, modify_vars, average_vars>>

\* Both callbacks returned: cli stores the values in ctx.obj and the wrapper
\* of the command builds the collector and calls get_data
InvokeCommand ==
    /\ parsing # Unset /\ parsing.status = "parsing"
    /\ parsing.done = {"start_date", "end_date"}
    /\ parsing' = [parsing EXCEPT !.status = "get_data"]
    /\ ctx_obj' = [start_date |-> parsing.start_date, end_date |-> parsing.end_date]
    /\ UNCHANGED <<args, streak_vars, pages_vars, download_vars, collect_vars, modify_vars, average_vars>>

NextValidate == ValidateStartDate \/ ValidateEndDate \/ InvokeCommand

SpecValidate == InitValidate /\ [][NextValidate]_vars

\* The value is a date YYYY-MM-DD or a month YYYY-MM
IsDay(value) ==
    Len(value) = 3 /\ value[2] \in 1..12 /\ value[3] \in 1..monthrange(value[1], value[2])
IsMonth(value) == Len(value) = 2 /\ value[2] \in 1..12

\* The day a value stands for: a month is its first day as a start date and
\* its last day as an end date
StartDay(value) ==
    IF IsDay(value) THEN to_datetime(value) ELSE to_datetime(<<value[1], value[2], 1>>)
EndDay(value) ==
    IF IsDay(value) THEN to_datetime(value)
    ELSE to_datetime(<<value[1], value[2], monthrange(value[1], value[2])>>)

ValidArgs ==
    /\ IsDay(args.start_date) \/ IsMonth(args.start_date)
    /\ IsDay(args.end_date) \/ IsMonth(args.end_date)
    /\ StartDay(args.start_date) <= EndDay(args.end_date)

\* C16: whichever option is validated first, the command reaches get_data
\* only if both values are dates YYYY-MM-DD or months YYYY-MM and start <=
\* end, a month as end date being its last day; otherwise the command is
\* rejected, and get_data is never reached.
C16_ValidatedBeforeGetData ==
    parsing # Unset =>
        /\ parsing.status = "get_data" =>
              /\ ValidArgs
              /\ ctx_obj.start_date = StartDay(args.start_date)
              /\ ctx_obj.end_date = EndDay(args.end_date)
        /\ (~ValidArgs /\ parsing.status # "parsing") =>
              parsing.status = "BadParameter"
        /\ (~ValidArgs /\ parsing.done = {"start_date", "end_date"}) =>
              parsing.status = "BadParameter"

\* The end date, a month, was validated first, and the start date is the
\* last day of that month
C16_Witness ==
    /\ parsing # Unset
    /\ parsing.status = "get_data"
    /\ args.first = "end_date"
    /\ IsMonth(args.end_date)
    /\ ctx_obj.start_date = ctx_obj.end_date

\* ------------------------------------------------------ the monthly averages
MonthStart == to_datetime(<<2020, 1, 30>>)

\* Series of one record per consecutive day from the end of January 2020 on,
\* the price rising by a fixed step a day, modulo MaxPrice + 1
MonthSeries ==
    { [i \in 1..n |-> [date |-> first + i - 1,
                        close |-> (offset + (i - 1) * step) % (MaxPrice + 1)]] :
        n \in 1..MaxMonthDays, first \in MonthStart..(MonthStart + MaxMonthShift),
        offset \in 0..MaxPrice, step \in 0..MaxStep }

InitAverage ==
    /\ historical_data \in MonthSeries
    /\ growth = Unset /\ echo = Unset
    /\ average = Unset
    /\ IdlePages /\ IdleDownload /\ IdleCollect /\ IdleModify /\ IdleValidate

CallAveragePrice ==
    /\ average = Unset
    /\ average' = [kind |-> "returned", value |-> average_price(historical_data, "close")]
    /\ UNCHANGED <<streak_vars, pages_vars, download_vars, collect_vars, modify_vars, validate_vars>>

NextAverage == CallAveragePrice

SpecAverage == InitAverage /\ [][NextAverage]_vars

\* The months the series spans, as <<year, month>>, and the records of one
Labels == {to_string_month(historical_data[i].date) : i \in 1..Len(historical_data)}
InMonth(record, label) == to_string_month(record.date) = label
PricesOf(label) ==
    list_values(SelectSeq(historical_data, LAMBDA r : InMonth(r, label)), "close")
Before(a, b) == a[1] < b[1] \/ (a[1] = b[1] /\ a[2] < b[2])

\* One pair for each month the series spans, in chronological order, each
\* for all the records of its month
OnePairPerMonth ==
    /\ Len(average.value) = Cardinality(Labels)
    /\ \A i \in 1..Len(average.value) : average.value[i].date \in Labels
    /\ \A i, j \in 1..Len(average.value) :
          i < j => Before(average.value[i].date, average.value[j].date)

\* The fraction a is the arithmetic mean of the prices
IsMean(a, prices) == a.num * Len(prices) = sum(prices, 1) * a.den

\* The fraction a is the arithmetic mean of the prices rounded to whole
\* cents, a tie to the even cent
IsRoundedMean(a, prices) ==
    LET total == sum(prices, 1)
        n == Len(prices)
        off == Abs(a.num * n - total * a.den)
    IN /\ a.den = 1 /\ a.num % 2 = 0
       /\ off <= n
       /\ off = n => (a.num \div 2) % 2 = 0

\* C14 as stated: a series of one record per consecutive day that spans k
\* months yields k (year-month, average) pairs in chronological order, one
\* for each maximal run of records of one month, every record in one group,
\* each average the arithmetic mean of the prices of its group.
C14_MonthlyMeans ==
    average # Unset =>
        /\ OnePairPerMonth
        /\ \A i \in 1..Len(average.value) :
              IsMean(average.value[i].average, PricesOf(average.value[i].date))

\* C14 as amended: the same, each average being the arithmetic mean of the
\* prices of its group when the mean is below 0.01, and the mean rounded to
\* two decimal places (half to even) when it is 0.01 or more.
C14_MonthlyRoundedMeans ==
    average # Unset =>
        /\ OnePairPerMonth
        /\ \A i \in 1..Len(average.value) :
              LET prices == PricesOf(average.value[i].date)
              IN IF sum(prices, 1) < 2 * Len(prices)
                   THEN IsMean(average.value[i].average, prices)
                 ELSE IsRoundedMean(average.value[i].average, prices)

\* Three months, one of them with a mean that is rounded and one with a
\* mean below a cent that is not
C14_Witness ==
    /\ average # Unset
    /\ Len(average.value) = 3
    /\ \E i \in 1..3 : ~IsMean(average.value[i].average, PricesOf(average.value[i].date))
    /\ \E i \in 1..3 : average.value[i].average.den > 1
====
